---- MODULE Spec2Model ----
(***************************************************************************)
(* Model of backend/app/services/dubai_market_service.py: the Dubai        *)
(* market intelligence service (DubaiMarketService) and its pricing        *)
(* engine.                                                                 *)
(*                                                                         *)
(* Numbers.  The service computes with Python floats.  Every multiplier of *)
(* the tables has one decimal, so a multiplier is kept here in TENTHS      *)
(* (1.6 is 16), and a price is kept as an exact decimal [m, k] standing    *)
(* for m * 10^-k, normalised (no trailing zero in m while k > 0).          *)
(* round(x, 2) is modelled on the exact decimal value, ties to even, and   *)
(* yields an integer number of hundredths (288.00 is 28800).  A binary     *)
(* float product whose exact value is a tie (...5 at the third decimal)    *)
(* lies a rounding error above or below the tie, and round() follows that  *)
(* error: on such inputs the float result can be the other neighbouring    *)
(* hundredth.  Everywhere else the float result is the value modelled.     *)
(*                                                                         *)
(* Dates.  A date is a record [year, month, day]; ordinals count days from *)
(* 2023-01-01 (ordinal 0, a Sunday).                                       *)
(*                                                                         *)
(* Clock.  Only generate_pricing_calendar and get_market_forecast read     *)
(* date.today().  A call of theirs begins on any date of ClockDates, and   *)
(* midnight can pass between two steps of its loop (Tick), so that two     *)
(* reads of the clock in one call may differ.  Between such calls nothing  *)
(* reads the clock and `today' is NoDate.                                  *)
(*                                                                         *)
(* Callers.  Spec and SpecCal follow one caller at a time through every    *)
(* operation (pc, op, args, result, raised, frame).  SpecConc follows      *)
(* MaxThreads callers that use the shared service at once, each with its   *)
(* own position and locals in `threads', their steps interleaved in any    *)
(* order; there `today' is the one clock all of them read.                 *)
(***************************************************************************)
EXTENDS Integers, Sequences, FiniteSets, TLC

VARIABLES
    area_multipliers,      \* self.area_multipliers
    seasonal_multipliers,  \* self.seasonal_multipliers
    event_multipliers,     \* self.event_multipliers
    dubai_events_2024,     \* self.dubai_events_2024
    pc,                    \* "idle" | "running" | "returned" | "raised": position of the caller
    op,                    \* name of the operation last called
    args,                  \* arguments of the operation last called
    result,                \* value returned by the call (when pc = "returned")
    raised,                \* name of the exception raised (when pc = "raised")
    today,                 \* what date.today() returns to the running call
    frame,                 \* local variables of the running call (loops)
    served,                \* the service has answered a call before this one
    threads                \* the concurrent callers of the shared service

vars == <<area_multipliers, seasonal_multipliers, event_multipliers,
          dubai_events_2024, pc, op, args, result, raised, today, frame, served,
          threads>>

tables == <<area_multipliers, seasonal_multipliers, event_multipliers,
            dubai_events_2024>>

-----------------------------------------------------------------------------
(* Python dictionaries *)

\* d.get(k, default)
DictGet(d, k, default) == IF k \in DOMAIN d THEN d[k] ELSE default

\* A dict display {k1: v1, k2: v2, ...}: items are inserted left to right, so
\* a key written twice keeps the value written last.
RECURSIVE DictDisplay(_)
DictDisplay(items) ==
    IF items = <<>> THEN <<>>
    ELSE LET n == Len(items)
             last == items[n]
             before == DictDisplay(SubSeq(items, 1, n - 1))
         IN  (last[1] :> last[2]) @@ before

\* list(range(a, b))
Range(a, b) == {n \in a..(b - 1) : TRUE}

-----------------------------------------------------------------------------
(* Enumerations *)

DubaiArea ==
    [MARINA |-> "marina", DOWNTOWN |-> "downtown", JLT |-> "jlt",
     BUSINESS_BAY |-> "business_bay", JBR |-> "jbr",
     PALM_JUMEIRAH |-> "palm_jumeirah", DEIRA |-> "deira",
     BURDUBAI |-> "bur_dubai", JUMEIRAH |-> "jumeirah",
     SILICON_OASIS |-> "silicon_oasis"]

DubaiSeason ==
    [PEAK_WINTER |-> "peak_winter", HIGH_WINTER |-> "high_winter",
     SHOULDER |-> "shoulder", LOW_SUMMER |-> "low_summer"]

DubaiEvent ==
    [SHOPPING_FESTIVAL |-> "shopping_festival", F1_GRAND_PRIX |-> "f1_grand_prix",
     GITEX |-> "gitex", ARAB_HEALTH |-> "arab_health", RAMADAN |-> "ramadan",
     EID_AL_FITR |-> "eid_al_fitr", EID_AL_ADHA |-> "eid_al_adha",
     UAE_NATIONAL_DAY |-> "uae_national_day", NEW_YEAR |-> "new_year"]

-----------------------------------------------------------------------------
(* Reference tables (multipliers in tenths) *)

\* mutant: Palm Jumeirah priced at 2.5
_get_area_pricing_multipliers_Palm25 ==
    DictDisplay(<<
        <<DubaiArea.PALM_JUMEIRAH, 25>>,
        <<DubaiArea.MARINA, 16>>,
        <<DubaiArea.DOWNTOWN, 15>>,
        <<DubaiArea.JBR, 14>>,
        <<DubaiArea.BUSINESS_BAY, 12>>,
        <<DubaiArea.JUMEIRAH, 13>>,
        <<DubaiArea.JLT, 10>>,
        <<DubaiArea.SILICON_OASIS, 8>>,
        <<DubaiArea.DEIRA, 7>>,
        <<DubaiArea.BURDUBAI, 6>> >>)

_get_area_pricing_multipliers ==
    DictDisplay(<<
        <<DubaiArea.PALM_JUMEIRAH, 20>>,
        <<DubaiArea.MARINA, 16>>,
        <<DubaiArea.DOWNTOWN, 15>>,
        <<DubaiArea.JBR, 14>>,
        <<DubaiArea.BUSINESS_BAY, 12>>,
        <<DubaiArea.JUMEIRAH, 13>>,
        <<DubaiArea.JLT, 10>>,
        <<DubaiArea.SILICON_OASIS, 8>>,
        <<DubaiArea.DEIRA, 7>>,
        <<DubaiArea.BURDUBAI, 6>> >>)

_get_seasonal_multipliers ==
    DictDisplay(<<
        <<DubaiSeason.PEAK_WINTER, 15>>,
        <<DubaiSeason.HIGH_WINTER, 13>>,
        <<DubaiSeason.SHOULDER, 10>>,
        <<DubaiSeason.LOW_SUMMER, 7>> >>)

_get_event_multipliers ==
    DictDisplay(<<
        <<DubaiEvent.F1_GRAND_PRIX, 30>>,
        <<DubaiEvent.SHOPPING_FESTIVAL, 18>>,
        <<DubaiEvent.GITEX, 16>>,
        <<DubaiEvent.ARAB_HEALTH, 15>>,
        <<DubaiEvent.UAE_NATIONAL_DAY, 14>>,
        <<DubaiEvent.NEW_YEAR, 20>>,
        <<DubaiEvent.EID_AL_FITR, 13>>,
        <<DubaiEvent.EID_AL_ADHA, 13>>,
        <<DubaiEvent.RAMADAN, 8>> >>)

\* The event windows written in the calendar literal
ShoppingFestivalJan == [name |-> "Dubai Shopping Festival", type |-> DubaiEvent.SHOPPING_FESTIVAL, days |-> Range(1, 29)]
GrandPrixMar == [name |-> "Formula 1 UAE Grand Prix", type |-> DubaiEvent.F1_GRAND_PRIX, days |-> {8, 9, 10}]
RamadanMar == [name |-> "Ramadan", type |-> DubaiEvent.RAMADAN, days |-> Range(10, 32)]
RamadanApr == [name |-> "Ramadan", type |-> DubaiEvent.RAMADAN, days |-> Range(1, 10)]
EidAlFitrApr == [name |-> "Eid Al-Fitr", type |-> DubaiEvent.EID_AL_FITR, days |-> {10, 11, 12}]
EidAlAdhaJun == [name |-> "Eid Al-Adha", type |-> DubaiEvent.EID_AL_ADHA, days |-> {16, 17, 18}]
GitexOct == [name |-> "GITEX Technology Week", type |-> DubaiEvent.GITEX, days |-> Range(14, 19)]
NationalDayDec == [name |-> "UAE National Day", type |-> DubaiEvent.UAE_NATIONAL_DAY, days |-> {2, 3}]
NewYearDec == [name |-> "New Year Celebrations", type |-> DubaiEvent.NEW_YEAR, days |-> {31}]

\* The literal has the key "2024-03" twice: the Ramadan list replaces the
\* Grand Prix list.
_get_dubai_events_calendar_2024 ==
    DictDisplay(<<
        <<"2024-01", <<ShoppingFestivalJan>> >>,
        <<"2024-03", <<GrandPrixMar>> >>,
        <<"2024-03", <<RamadanMar>> >>,
        <<"2024-04", <<RamadanApr, EidAlFitrApr>> >>,
        <<"2024-06", <<EidAlAdhaJun>> >>,
        <<"2024-10", <<GitexOct>> >>,
        <<"2024-12", <<NationalDayDec, NewYearDec>> >> >>)

-----------------------------------------------------------------------------
(* datetime.date *)

IsLeap(y) == (y % 4 = 0 /\ y % 100 # 0) \/ y % 400 = 0

DaysInYear(y) == IF IsLeap(y) THEN 366 ELSE 365

DaysInMonth(y, m) ==
    IF m = 2 THEN (IF IsLeap(y) THEN 29 ELSE 28)
    ELSE IF m \in {4, 6, 9, 11} THEN 30 ELSE 31

RECURSIVE DaysBeforeYear(_)
DaysBeforeYear(y) ==
    IF y <= 2023 THEN 0 ELSE DaysBeforeYear(y - 1) + DaysInYear(y - 1)

RECURSIVE DaysBeforeMonth(_, _)
DaysBeforeMonth(y, m) ==
    IF m <= 1 THEN 0 ELSE DaysBeforeMonth(y, m - 1) + DaysInMonth(y, m - 1)

\* date(y, m, d)
Date(y, m, d) == [year |-> y, month |-> m, day |-> d]

\* days from 2023-01-01 to the date
ToOrdinal(dt) == DaysBeforeYear(dt.year) + DaysBeforeMonth(dt.year, dt.month) + dt.day - 1

RECURSIVE YearOfOrdinal(_, _)
YearOfOrdinal(n, y) ==
    IF n < DaysInYear(y) THEN y ELSE YearOfOrdinal(n - DaysInYear(y), y + 1)

RECURSIVE MonthOfYearDay(_, _, _)
MonthOfYearDay(n, y, m) ==
    IF n < DaysInMonth(y, m) THEN m ELSE MonthOfYearDay(n - DaysInMonth(y, m), y, m + 1)

FromOrdinal(n) ==
    LET y == YearOfOrdinal(n, 2023)
        yd == n - DaysBeforeYear(y)
        m == MonthOfYearDay(yd, y, 1)
    IN  Date(y, m, yd - DaysBeforeMonth(y, m) + 1)

\* date.weekday(): Monday is 0 ... Sunday is 6 (2023-01-01 was a Sunday)
Weekday(dt) == (ToOrdinal(dt) + 6) % 7

\* date + timedelta(days=n)
AddDays(dt, n) == FromOrdinal(ToOrdinal(dt) + n)

Digit == <<"0", "1", "2", "3", "4", "5", "6", "7", "8", "9">>

DigitStr(n) == Digit[n + 1]

\* date.strftime("%Y-%m"): four-digit year, "-", two-digit month
StrftimeYm(dt) ==
    DigitStr(dt.year \div 1000) \o DigitStr((dt.year \div 100) % 10)
        \o DigitStr((dt.year \div 10) % 10) \o DigitStr(dt.year % 10)
        \o "-" \o DigitStr(dt.month \div 10) \o DigitStr(dt.month % 10)

-----------------------------------------------------------------------------
(* Float arithmetic as exact decimals *)

RECURSIVE Pow10(_)
Pow10(k) == IF k <= 0 THEN 1 ELSE 10 * Pow10(k - 1)

RECURSIVE Normal(_)
Normal(x) ==
    IF x.k > 0 /\ x.m % 10 = 0 THEN Normal([m |-> x.m \div 10, k |-> x.k - 1]) ELSE x

\* the float of an integer
Dec(n) == [m |-> n, k |-> 0]

\* x * t where t is a multiplier in tenths
MulTenths(x, t) == Normal([m |-> x.m * t, k |-> x.k + 1])

Abs(n) == IF n < 0 THEN 0 - n ELSE n

\* round(x, 2) in hundredths: nearest, ties to even
Round2(x) ==
    IF x.k <= 2 THEN x.m * Pow10(2 - x.k)
    ELSE LET p == Pow10(x.k - 2)
             a == Abs(x.m)
             q == a \div p
             r == a % p
             up == (2 * r > p) \/ (2 * r = p /\ q % 2 = 1)
             h == IF up THEN q + 1 ELSE q
         IN  IF x.m < 0 THEN 0 - h ELSE h

-----------------------------------------------------------------------------
(* Season / event resolver *)

\* mutant: November counted with the shoulder months
get_season_for_date_NovShoulder(target_date) ==
    LET month == target_date.month
    IN  IF month \in {12, 1, 2} THEN DubaiSeason.PEAK_WINTER
        ELSE IF month \in {3} THEN DubaiSeason.HIGH_WINTER
        ELSE IF month \in {4, 10, 11} THEN DubaiSeason.SHOULDER
        ELSE DubaiSeason.LOW_SUMMER

get_season_for_date(target_date) ==
    LET month == target_date.month
    IN  IF month \in {12, 1, 2} THEN DubaiSeason.PEAK_WINTER
        ELSE IF month \in {3, 11} THEN DubaiSeason.HIGH_WINTER
        ELSE IF month \in {4, 10} THEN DubaiSeason.SHOULDER
        ELSE DubaiSeason.LOW_SUMMER

\* mutant: the calendar looked up by month alone, whatever the year
get_events_for_date_AnyYear(calendar, target_date) ==
    LET month_key == StrftimeYm(Date(2024, target_date.month, target_date.day))
    IN  IF month_key \in DOMAIN calendar
        THEN SelectSeq(calendar[month_key], LAMBDA event : target_date.day \in event.days)
        ELSE <<>>

get_events_for_date(calendar, target_date) ==
    LET month_key == StrftimeYm(target_date)
    IN  IF month_key \in DOMAIN calendar
        THEN SelectSeq(calendar[month_key], LAMBDA event : target_date.day \in event.days)
        ELSE <<>>

-----------------------------------------------------------------------------
(* Price composer *)

\* mutant: concurrent events stack multiplicatively
RECURSIVE EventLoop_Product(_, _, _, _)
EventLoop_Product(ev_mults, events, max_event_multiplier, active_events) ==
    IF events = <<>>
    THEN [max_event_multiplier |-> max_event_multiplier, active_events |-> active_events]
    ELSE LET event == Head(events)
             event_multiplier == DictGet(ev_mults, event.type, 10)
         IN  EventLoop_Product(ev_mults, Tail(events),
                       (max_event_multiplier * event_multiplier) \div 10,
                       Append(active_events,
                              [name |-> event.name, type |-> event.type,
                               multiplier |-> event_multiplier]))

\* The loop over the active events (lines 174-185): the running maximum
\* starts at 1.0 and every event is appended to active_events.
RECURSIVE EventLoop(_, _, _, _)
EventLoop(ev_mults, events, max_event_multiplier, active_events) ==
    IF events = <<>>
    THEN [max_event_multiplier |-> max_event_multiplier, active_events |-> active_events]
    ELSE LET event == Head(events)
             event_multiplier == DictGet(ev_mults, event.type, 10)
         IN  EventLoop(ev_mults, Tail(events),
                       IF event_multiplier > max_event_multiplier
                       THEN event_multiplier ELSE max_event_multiplier,
                       Append(active_events,
                              [name |-> event.name, type |-> event.type,
                               multiplier |-> event_multiplier]))

\* mutant: the thresholds compared with > in place of >=
_get_demand_level_Strict(seasonal_mult, event_mult) ==
    LET total_mult == seasonal_mult * event_mult
    IN  IF total_mult > 250 THEN "Very High"
        ELSE IF total_mult > 150 THEN "High"
        ELSE IF total_mult > 100 THEN "Medium"
        ELSE "Low"

\* total_mult = seasonal_mult * event_mult is in hundredths
_get_demand_level(seasonal_mult, event_mult) ==
    LET total_mult == seasonal_mult * event_mult
    IN  IF total_mult >= 250 THEN "Very High"
        ELSE IF total_mult >= 150 THEN "High"
        ELSE IF total_mult >= 100 THEN "Medium"
        ELSE "Low"

\* ', '.join(names)
RECURSIVE Join(_)
Join(names) ==
    IF names = <<>> THEN ""
    ELSE IF Len(names) = 1 THEN names[1]
    ELSE names[1] \o ", " \o Join(Tail(names))

\* increase_pct = ((suggested_price - base_rate) / base_rate) * 100 > 50, for
\* base_rate # 0: the quotient exceeds 0.5.  Dividing by a negative base_rate
\* reverses the comparison of the numerator with base_rate / 2.
IncreaseOver50(base_rate, suggested_price) ==
    LET scale == Pow10(suggested_price.k)
        twice == 2 * (suggested_price.m - base_rate * scale)
    IN  IF base_rate > 0 THEN twice > base_rate * scale
        ELSE twice < base_rate * scale

\* Called with base_rate # 0 (the division raises ZeroDivisionError otherwise)
_get_pricing_recommendations(base_rate, suggested_price, events, season) ==
    LET r1 == IF IncreaseOver50(base_rate, suggested_price)
              THEN <<"High demand period - consider premium positioning">>
              ELSE <<>>
        r2 == IF events # <<>>
              THEN <<"Major events active: "
                       \o Join([i \in 1..Len(events) |-> events[i].name])>>
              ELSE <<>>
        r3 == IF season = DubaiSeason.PEAK_WINTER
              THEN <<"Peak winter season - maximize revenue with premium rates">>
              ELSE IF season = DubaiSeason.LOW_SUMMER
              THEN <<"Summer season - consider longer stay discounts">>
              ELSE <<>>
    IN  r1 \o r2 \o r3

\* mutant: the weekend taken as Saturday and Sunday
IsWeekend_SatSun(target_date) == Weekday(target_date) \in {5, 6}

\* date.weekday() in [4, 5]
IsWeekend(target_date) == Weekday(target_date) \in {4, 5}

\* mutant: the villa and penthouse adjustments exchanged
PropertyTypeAdjust_Swapped(price, property_type) ==
    IF property_type = "villa" THEN MulTenths(price, 20)
    ELSE IF property_type = "penthouse" THEN MulTenths(price, 15)
    ELSE IF property_type = "studio" THEN MulTenths(price, 8)
    ELSE price

\* mutant: the studio adjustment given to every type that is not listed
PropertyTypeAdjust_OtherAsStudio(price, property_type) ==
    IF property_type = "villa" THEN MulTenths(price, 15)
    ELSE IF property_type = "penthouse" THEN MulTenths(price, 20)
    ELSE MulTenths(price, 8)

\* price *= 1.5 / 2.0 / 0.8 for villa / penthouse / studio, else unchanged
PropertyTypeAdjust(price, property_type) ==
    IF property_type = "villa" THEN MulTenths(price, 15)
    ELSE IF property_type = "penthouse" THEN MulTenths(price, 20)
    ELSE IF property_type = "studio" THEN MulTenths(price, 8)
    ELSE price

Max(a, b) == IF a > b THEN a ELSE b
Min(a, b) == IF a < b THEN a ELSE b

\* mutant: no ceiling of 3.0
BedroomMultiplier_NoCeiling(bedrooms) == Max(5, 7 + (bedrooms * 3))

\* mutant: no floor of 0.5
BedroomMultiplier_NoFloor(bedrooms) == Min(30, 7 + (bedrooms * 3))

\* max(0.5, min(3.0, 0.7 + (bedrooms * 0.3)))
BedroomMultiplier(bedrooms) == Max(5, Min(30, 7 + (bedrooms * 3)))

\* mutant: another default for a missing area
AreaMultiplierOf_Default2(am, area) == DictGet(am, area, 20)

\* self.area_multipliers.get(area, 1.0)
AreaMultiplierOf(am, area) == DictGet(am, area, 10)

\* mutant: the demand level taken from the area multiplier in place of the
\* seasonal one
calculate_optimal_price_DemandFromArea(am, sm, em, cal, base_rate, area, target_date, property_type, bedrooms) ==
    LET price0 == Dec(base_rate)
        pf0 == [base_rate |-> base_rate]
        area_multiplier == AreaMultiplierOf(am, area)
        price1 == MulTenths(price0, area_multiplier)
        pf1 == pf0 @@ [area_multiplier |-> area_multiplier]
        season == get_season_for_date(target_date)
        seasonal_multiplier == sm[season]
        price2 == MulTenths(price1, seasonal_multiplier)
        pf2 == pf1 @@ [seasonal_multiplier |-> seasonal_multiplier, season |-> season]
        events == get_events_for_date(cal, target_date)
        loop == EventLoop(em, events, 10, <<>>)
        max_event_multiplier == loop.max_event_multiplier
        active_events == loop.active_events
        price3 == MulTenths(price2, max_event_multiplier)
        pf3 == pf2 @@ [event_multiplier |-> max_event_multiplier,
                       active_events |-> active_events]
        weekend == IsWeekend(target_date)
        price4 == IF weekend THEN MulTenths(price3, 12) ELSE price3
        pf4 == IF weekend THEN pf3 @@ [weekend_multiplier |-> 12] ELSE pf3
        price5 == PropertyTypeAdjust(price4, property_type)
        bedroom_multiplier == BedroomMultiplier(bedrooms)
        price == MulTenths(price5, bedroom_multiplier)
        pricing_factors == pf4 @@ [bedroom_multiplier |-> bedroom_multiplier]
    IN  IF base_rate = 0
        THEN [raised |-> "ZeroDivisionError", value |-> <<>>]
        ELSE [raised |-> "none",
              value |-> [suggested_price |-> Round2(price),
                         pricing_factors |-> pricing_factors,
                         demand_level |-> _get_demand_level(area_multiplier, max_event_multiplier),
                         recommendations |-> _get_pricing_recommendations(
                             base_rate, price, active_events, season)]]

\* calculate_optimal_price on the tables of the service: the outcome is
\* [raised, value], raised = "none" when value is returned.
calculate_optimal_price(am, sm, em, cal, base_rate, area, target_date, property_type, bedrooms) ==
    LET price0 == Dec(base_rate)
        pf0 == [base_rate |-> base_rate]
        area_multiplier == AreaMultiplierOf(am, area)
        price1 == MulTenths(price0, area_multiplier)
        pf1 == pf0 @@ [area_multiplier |-> area_multiplier]
        season == get_season_for_date(target_date)
        seasonal_multiplier == sm[season]
        price2 == MulTenths(price1, seasonal_multiplier)
        pf2 == pf1 @@ [seasonal_multiplier |-> seasonal_multiplier, season |-> season]
        events == get_events_for_date(cal, target_date)
        loop == EventLoop(em, events, 10, <<>>)
        max_event_multiplier == loop.max_event_multiplier
        active_events == loop.active_events
        price3 == MulTenths(price2, max_event_multiplier)
        pf3 == pf2 @@ [event_multiplier |-> max_event_multiplier,
                       active_events |-> active_events]
        weekend == IsWeekend(target_date)
        price4 == IF weekend THEN MulTenths(price3, 12) ELSE price3
        pf4 == IF weekend THEN pf3 @@ [weekend_multiplier |-> 12] ELSE pf3
        price5 == PropertyTypeAdjust(price4, property_type)
        bedroom_multiplier == BedroomMultiplier(bedrooms)
        price == MulTenths(price5, bedroom_multiplier)
        pricing_factors == pf4 @@ [bedroom_multiplier |-> bedroom_multiplier]
    IN  IF base_rate = 0
        THEN [raised |-> "ZeroDivisionError", value |-> <<>>]
        ELSE [raised |-> "none",
              value |-> [suggested_price |-> Round2(price),
                         pricing_factors |-> pricing_factors,
                         demand_level |-> _get_demand_level(seasonal_multiplier, max_event_multiplier),
                         recommendations |-> _get_pricing_recommendations(
                             base_rate, price, active_events, season)]]

-----------------------------------------------------------------------------
(* Clock, locals and date formats *)

\* no call is reading the clock / no loop is running
NoDate == [year |-> 0, month |-> 0, day |-> 0]
NoFrame == <<>>

\* date.strftime("%Y")
StrftimeY(dt) ==
    DigitStr(dt.year \div 1000) \o DigitStr((dt.year \div 100) % 10)
        \o DigitStr((dt.year \div 10) % 10) \o DigitStr(dt.year % 10)

\* date.isoformat(): "YYYY-MM-DD"
Isoformat(dt) ==
    StrftimeYm(dt) \o "-" \o DigitStr(dt.day \div 10) \o DigitStr(dt.day % 10)

DayNames ==
    <<"Monday", "Tuesday", "Wednesday", "Thursday", "Friday", "Saturday", "Sunday">>

\* date.strftime("%A")
StrftimeA(dt) == DayNames[Weekday(dt) + 1]

MonthAbbreviations ==
    <<"Jan", "Feb", "Mar", "Apr", "May", "Jun",
      "Jul", "Aug", "Sep", "Oct", "Nov", "Dec">>

\* date.strftime("%b")
StrftimeB(dt) == MonthAbbreviations[dt.month]

\* date.strftime("%b %Y")
StrftimeBY(dt) == StrftimeB(dt) \o " " \o StrftimeY(dt)

-----------------------------------------------------------------------------
(* generate_pricing_calendar *)

\* mutant: the clock read again for every day of the calendar
CalendarTargetDate_RereadsClock(start_date, i) == AddDays(today, i)

\* target_date = start_date + timedelta(days=i)
CalendarTargetDate(start_date, i) == AddDays(start_date, i)

\* mutant: the property type not passed on (the default "apartment" priced)
CalendarPricingData_DefaultType(base_rate, area, target_date, property_type, bedrooms) ==
    calculate_optimal_price(area_multipliers, seasonal_multipliers,
        event_multipliers, dubai_events_2024,
        base_rate, area, target_date, "apartment", bedrooms)

\* pricing_data = self.calculate_optimal_price(base_rate, area, target_date,
\*                                             property_type, bedrooms)
CalendarPricingData(base_rate, area, target_date, property_type, bedrooms) ==
    calculate_optimal_price(area_multipliers, seasonal_multipliers,
        event_multipliers, dubai_events_2024,
        base_rate, area, target_date, property_type, bedrooms)

\* the dict appended to the calendar for target_date
CalendarEntry(target_date, pricing_data) ==
    LET active_events == pricing_data.pricing_factors.active_events
    IN  [date |-> Isoformat(target_date),
         day_name |-> StrftimeA(target_date),
         suggested_price |-> pricing_data.suggested_price,
         demand_level |-> pricing_data.demand_level,
         active_events |-> [j \in 1..Len(active_events) |-> active_events[j].name],
         season |-> pricing_data.pricing_factors.season,
         pricing_factors |-> pricing_data.pricing_factors]

-----------------------------------------------------------------------------
(* get_market_forecast *)

base_revenue == 5000

\* math.sin(i * 0.5) in units of 10^-7, for i = 0 .. 19 (index i + 1)
SinE7 ==
    <<0, 4794255, 8414710, 9974950, 9092974, 5984721, 1411200, -3507832,
      -7568025, -9775301, -9589243, -7055403, -2794155, 2151200, 6569866,
      9380000, 9893582, 7984871, 4121185, -751511>>

\* n / d rounded to the nearest integer (d > 0)
RoundDiv(n, d) == (2 * n + d) \div (2 * d)

\* round(base_revenue * seasonal_mult * (math.sin(i * 0.5) * 0.1 + 1), 2) in
\* hundredths, seasonal_mult in tenths: base_revenue * seasonal_mult is a
\* multiple of 1000, which is divided out before the sine is multiplied in
ForecastedRevenue(seasonal_mult, i) ==
    base_revenue * 10 * seasonal_mult
        + RoundDiv(((base_revenue * seasonal_mult) \div 1000) * SinE7[i + 1], 10000)

\* mutant: no floor under the confidence
ForecastConfidence_NoFloor(i) == 95 - (i * 3)

\* confidence = max(60, 95 - (i * 3))
ForecastConfidence(i) == Max(60, 95 - (i * 3))

\* the dict appended to forecast_data for the month i of the loop
ForecastEntry(future_date, i) ==
    LET season == get_season_for_date(future_date)
        seasonal_mult == seasonal_multipliers[season]
    IN  [month |-> StrftimeBY(future_date),
         month_short |-> StrftimeB(future_date),
         forecasted_revenue |-> ForecastedRevenue(seasonal_mult, i),
         confidence |-> ForecastConfidence(i),
         season |-> season,
         seasonal_multiplier |-> seasonal_mult]

\* max(forecast_data, key=...) / min(...): the first entry with the largest /
\* smallest forecasted_revenue (forecast_data not empty)
MaxByRevenue(forecast_data) ==
    forecast_data[CHOOSE j \in 1..Len(forecast_data) :
        /\ \A k \in 1..Len(forecast_data) :
              forecast_data[k].forecasted_revenue <= forecast_data[j].forecasted_revenue
        /\ \A k \in 1..(j - 1) :
              forecast_data[k].forecasted_revenue < forecast_data[j].forecasted_revenue]

MinByRevenue(forecast_data) ==
    forecast_data[CHOOSE j \in 1..Len(forecast_data) :
        /\ \A k \in 1..Len(forecast_data) :
              forecast_data[k].forecasted_revenue >= forecast_data[j].forecasted_revenue
        /\ \A k \in 1..(j - 1) :
              forecast_data[k].forecasted_revenue > forecast_data[j].forecasted_revenue]

RECURSIVE SumConfidence(_)
SumConfidence(forecast_data) ==
    IF forecast_data = <<>> THEN 0
    ELSE Head(forecast_data).confidence + SumConfidence(Tail(forecast_data))

\* mutant: the mean cut to one decimal, not rounded
AverageConfidence_Truncated(forecast_data) ==
    (SumConfidence(forecast_data) * 10) \div Len(forecast_data)

\* round(sum / len, 1) in tenths, ties to even
AverageConfidence(forecast_data) ==
    LET n == SumConfidence(forecast_data) * 10
        d == Len(forecast_data)
        q == n \div d
        r == n % d
    IN  IF 2 * r > d \/ (2 * r = d /\ q % 2 = 1) THEN q + 1 ELSE q

\* the value returned for a forecast_data that is not empty
ForecastResult(forecast_data) ==
    [forecast_data |-> forecast_data,
     insights |-> [peak_month |-> MaxByRevenue(forecast_data),
                   low_month |-> MinByRevenue(forecast_data),
                   average_confidence |-> AverageConfidence(forecast_data)]]

-----------------------------------------------------------------------------
(* get_market_benchmarks *)

base_adr == 120

\* the product of two floats as exact decimals
MulDec(x, y) == Normal([m |-> x.m * y.m, k |-> x.k + y.k])

\* round(x, 1) in tenths: nearest, ties to even
Round1(x) ==
    IF x.k <= 1 THEN x.m * Pow10(1 - x.k)
    ELSE LET p == Pow10(x.k - 1)
             a == Abs(x.m)
             q == a \div p
             r == a % p
             up == (2 * r > p) \/ (2 * r = p /\ q % 2 = 1)
             h == IF up THEN q + 1 ELSE q
         IN  IF x.m < 0 THEN 0 - h ELSE h

\* mutant: another default for a missing area
BenchmarkAreaMult_Default2(am, area) == DictGet(am, area, 20)

\* area_mult = self.area_multipliers.get(area, 1.0)
BenchmarkAreaMult(am, area) == DictGet(am, area, 10)

\* mutant: the occupancy share of revpar held at 0.65
BenchmarkRevpar_FlatOccupancy(market_adr, area_mult) ==
    Round2(MulDec(market_adr, [m |-> 65, k |-> 2]))

\* round(market_adr * (0.65 + area_mult * 0.1), 2): 0.65 + area_mult * 0.1
\* is (65 + area_mult in tenths) hundredths
BenchmarkRevpar(market_adr, area_mult) ==
    Round2(MulDec(market_adr, Normal([m |-> 65 + area_mult, k |-> 2])))

\* area.replace("_", " ").title(), for the area tags of the requests
AreaTitle(area) ==
    CASE area = "palm_jumeirah" -> "Palm Jumeirah"
      [] area = "marina" -> "Marina"
      [] area = "downtown" -> "Downtown"
      [] area = "jbr" -> "Jbr"
      [] area = "business_bay" -> "Business Bay"
      [] area = "jumeirah" -> "Jumeirah"
      [] area = "jlt" -> "Jlt"
      [] area = "silicon_oasis" -> "Silicon Oasis"
      [] area = "deira" -> "Deira"
      [] area = "bur_dubai" -> "Bur Dubai"
      [] area = "atlantis" -> "Atlantis"

\* mutant: the tier thresholds compared with > in place of >=
BenchmarkTier_Strict(area_mult) ==
    IF area_mult > 14 THEN "Premium"
    ELSE IF area_mult > 10 THEN "Standard"
    ELSE "Budget"

\* "Premium" if area_mult >= 1.4 else "Standard" if area_mult >= 1.0 else "Budget"
BenchmarkTier(area_mult) ==
    IF area_mult >= 14 THEN "Premium"
    ELSE IF area_mult >= 10 THEN "Standard"
    ELSE "Budget"

\* "High" if area_mult >= 1.3 else "Medium"
SeasonalityImpact(area_mult) == IF area_mult >= 13 THEN "High" ELSE "Medium"

_get_area_demand_profile(area) ==
    LET profiles == DictDisplay(<<
            <<DubaiArea.MARINA, "Tourists & Business Travelers">>,
            <<DubaiArea.DOWNTOWN, "Business & Conference Attendees">>,
            <<DubaiArea.JLT, "Corporate Housing & Expats">>,
            <<DubaiArea.BUSINESS_BAY, "Business Travelers">>,
            <<DubaiArea.JBR, "Leisure Tourists">>,
            <<DubaiArea.PALM_JUMEIRAH, "Luxury Tourists">>,
            <<DubaiArea.JUMEIRAH, "Family Tourists">>,
            <<DubaiArea.DEIRA, "Budget Travelers & Regional Visitors">>,
            <<DubaiArea.BURDUBAI, "Cultural Tourists & Budget Travelers">>,
            <<DubaiArea.SILICON_OASIS, "Tech Workers & Long-term Stays">> >>)
    IN  DictGet(profiles, area, "Mixed Demand")

_get_area_recommendations(area, multiplier) ==
    LET r1 == IF multiplier >= 15
              THEN <<"Premium positioning - focus on luxury amenities",
                     "Target high-end business and leisure travelers">>
              ELSE IF multiplier >= 10
              THEN <<"Competitive rates with quality amenities",
                     "Balanced approach for business and leisure">>
              ELSE <<"Value positioning - emphasize cost-effectiveness",
                     "Target budget-conscious and longer-stay guests">>
        r2 == IF area = DubaiArea.MARINA
              THEN <<"Highlight waterfront views and dining options">>
              ELSE IF area = DubaiArea.DOWNTOWN
              THEN <<"Emphasize business facilities and metro access">>
              ELSE IF area = DubaiArea.JLT
              THEN <<"Target corporate clients and metro connectivity">>
              ELSE <<>>
    IN  r1 \o r2

\* get_market_benchmarks on the area table of the service; rates and revpar
\* in hundredths, occupancy and health score in tenths
get_market_benchmarks(am, area, property_type) ==
    LET area_mult == BenchmarkAreaMult(am, area)
        market_adr == MulTenths(Dec(base_adr), area_mult)
    IN  [market_metrics |->
            [average_daily_rate |-> Round2(market_adr),
             \* 65 + (area_mult * 10) and 60 + (area_mult * 20): whole numbers
             occupancy_rate |-> Round1(Dec(65 + area_mult)),
             revpar |-> BenchmarkRevpar(market_adr, area_mult),
             market_health_score |-> Round1(Dec(60 + (area_mult * 2)))],
         area_insights |->
            [area |-> AreaTitle(area),
             tier |-> BenchmarkTier(area_mult),
             primary_demand |-> _get_area_demand_profile(area),
             seasonality_impact |-> SeasonalityImpact(area_mult)],
         recommendations |-> _get_area_recommendations(area, area_mult)]

-----------------------------------------------------------------------------
(* Inputs of the calls *)

MaxBedrooms == 2

BaseRates == {-100, 0, 100, 155}

Areas == DOMAIN _get_area_pricing_multipliers \cup {"atlantis"}

PropertyTypes == {"apartment", "villa", "penthouse", "studio", "townhouse"}

\* 0.7 + 0.3 * bedrooms passes 3.0 at 8 bedrooms
BedroomCounts == (-1..MaxBedrooms) \cup {8, 20}

\* December 2023 .. January 2025: the 2nd and 16th of every month, the week
\* of 2-8 February 2024, 8-10 March, 10 April and 31 December 2024
TargetDates ==
    {dt \in {FromOrdinal(n) : n \in ToOrdinal(Date(2023, 12, 1))..ToOrdinal(Date(2025, 1, 31))} :
        \/ dt.day \in {2, 16}
        \/ dt.year = 2024 /\ dt.month = 2 /\ dt.day \in 2..8
        \/ dt.year = 2024 /\ dt.month = 3 /\ dt.day \in 8..10
        \/ dt.year = 2024 /\ dt.month = 4 /\ dt.day = 10
        \/ dt.year = 2024 /\ dt.month = 12 /\ dt.day = 31}

\* the requests priced by generate_pricing_calendar
MaxDaysAhead == 3

DaysAhead == -1..MaxDaysAhead

CalendarBaseRates == {0, 100}

CalendarAreas == {"marina", "atlantis"}

CalendarPropertyTypes == {"apartment", "villa"}

CalendarBedroomCounts == {1, 8}

\* the horizons of get_market_forecast: the confidence meets its floor of 60
\* at i = 12
MaxMonthsAhead == 13

MonthsAhead == -1..MaxMonthsAhead

\* the dates on which a call that reads the clock begins: the end of the
\* Shopping Festival, the eve of Eid Al-Fitr, the end of 2024 and a day
\* after the calendar of events
ClockDates ==
    {Date(2024, 1, 27), Date(2024, 4, 9), Date(2024, 12, 30), Date(2026, 11, 4)}

\* midnights that can pass during one call
MaxTicks == 1

-----------------------------------------------------------------------------
(* The service object and its callers *)

Init ==
    /\ area_multipliers = _get_area_pricing_multipliers
    /\ seasonal_multipliers = _get_seasonal_multipliers
    /\ event_multipliers = _get_event_multipliers
    /\ dubai_events_2024 = _get_dubai_events_calendar_2024
    /\ pc = "idle"
    /\ op = "none"
    /\ args = <<>>
    /\ result = <<>>
    /\ raised = "none"
    /\ today = NoDate
    /\ frame = NoFrame
    /\ served = FALSE
    /\ threads = <<>>

\* mutant: the call leaves the event factor it applied in the multiplier
\* table of the service, under the type of the first active event
CalculateOptimalPrice_WritesBack ==
    /\ pc = "idle"
    /\ \E base_rate \in BaseRates, area \in Areas, target_date \in TargetDates,
          property_type \in PropertyTypes, bedrooms \in BedroomCounts :
          LET out == calculate_optimal_price(area_multipliers, seasonal_multipliers,
                         event_multipliers, dubai_events_2024,
                         base_rate, area, target_date, property_type, bedrooms)
              loop == EventLoop(event_multipliers,
                          get_events_for_date(dubai_events_2024, target_date), 10, <<>>)
          IN  /\ op' = "calculate_optimal_price"
              /\ args' = [base_rate |-> base_rate, area |-> area,
                          target_date |-> target_date,
                          property_type |-> property_type, bedrooms |-> bedrooms]
              /\ raised' = out.raised
              /\ result' = out.value
              /\ pc' = IF out.raised = "none" THEN "returned" ELSE "raised"
              /\ event_multipliers' =
                   IF loop.active_events = <<>> THEN event_multipliers
                   ELSE [event_multipliers EXCEPT ![loop.active_events[1].type] =
                            loop.max_event_multiplier]
    /\ UNCHANGED <<area_multipliers, seasonal_multipliers, dubai_events_2024,
                   today, frame, served, threads>>

\* A caller invokes calculate_optimal_price(base_rate, area, target_date,
\* property_type, bedrooms) and gets a value or an exception.
CalculateOptimalPrice ==
    /\ pc = "idle"
    /\ \E base_rate \in BaseRates, area \in Areas, target_date \in TargetDates,
          property_type \in PropertyTypes, bedrooms \in BedroomCounts :
          LET out == calculate_optimal_price(area_multipliers, seasonal_multipliers,
                         event_multipliers, dubai_events_2024,
                         base_rate, area, target_date, property_type, bedrooms)
          IN  /\ op' = "calculate_optimal_price"
              /\ args' = [base_rate |-> base_rate, area |-> area,
                          target_date |-> target_date,
                          property_type |-> property_type, bedrooms |-> bedrooms]
              /\ raised' = out.raised
              /\ result' = out.value
              /\ pc' = IF out.raised = "none" THEN "returned" ELSE "raised"
    /\ UNCHANGED <<threads, tables, today, frame, served>>

\* A caller invokes get_season_for_date(target_date).
GetSeasonForDate ==
    /\ pc = "idle"
    /\ \E target_date \in TargetDates :
          /\ op' = "get_season_for_date"
          /\ args' = [target_date |-> target_date]
          /\ result' = get_season_for_date(target_date)
    /\ raised' = "none"
    /\ pc' = "returned"
    /\ UNCHANGED <<threads, tables, today, frame, served>>

\* A caller invokes get_events_for_date(target_date).
GetEventsForDate ==
    /\ pc = "idle"
    /\ \E target_date \in TargetDates :
          /\ op' = "get_events_for_date"
          /\ args' = [target_date |-> target_date]
          /\ result' = get_events_for_date(dubai_events_2024, target_date)
    /\ raised' = "none"
    /\ pc' = "returned"
    /\ UNCHANGED <<threads, tables, today, frame, served>>

\* A caller invokes get_market_benchmarks(area, property_type).
GetMarketBenchmarks ==
    /\ pc = "idle"
    /\ \E area \in Areas, property_type \in PropertyTypes :
          /\ op' = "get_market_benchmarks"
          /\ args' = [area |-> area, property_type |-> property_type]
          /\ result' = get_market_benchmarks(area_multipliers, area, property_type)
    /\ raised' = "none"
    /\ pc' = "returned"
    /\ UNCHANGED <<threads, tables, today, frame, served>>

\* A caller invokes generate_pricing_calendar(base_rate, area, days_ahead,
\* property_type, bedrooms): calendar = [], start_date = date.today().
GeneratePricingCalendar ==
    /\ pc = "idle"
    /\ \E base_rate \in CalendarBaseRates, area \in CalendarAreas,
          days_ahead \in DaysAhead, property_type \in CalendarPropertyTypes,
          bedrooms \in CalendarBedroomCounts, now \in ClockDates :
          /\ op' = "generate_pricing_calendar"
          /\ args' = [base_rate |-> base_rate, area |-> area,
                      days_ahead |-> days_ahead,
                      property_type |-> property_type, bedrooms |-> bedrooms]
          /\ today' = now
          /\ frame' = [called_on |-> now, ticks |-> 0,
                       calendar |-> <<>>, start_date |-> now, i |-> 0]
    /\ pc' = "running"
    /\ UNCHANGED <<threads, tables, result, raised, served>>

\* One turn of `for i in range(days_ahead)': the day is priced and appended,
\* or the exception of calculate_optimal_price ends the call.
GeneratePricingCalendarLoop ==
    /\ pc = "running"
    /\ op = "generate_pricing_calendar"
    /\ frame.i < args.days_ahead
    /\ LET target_date == CalendarTargetDate(frame.start_date, frame.i)
           out == CalendarPricingData(args.base_rate, args.area, target_date,
                                      args.property_type, args.bedrooms)
       IN  IF out.raised = "none"
           THEN /\ frame' = [frame EXCEPT
                               !.calendar = Append(@, CalendarEntry(target_date, out.value)),
                               !.i = @ + 1]
                /\ UNCHANGED <<pc, raised>>
           ELSE /\ pc' = "raised"
                /\ raised' = out.raised
                /\ UNCHANGED frame
    /\ UNCHANGED <<threads, tables, op, args, result, today, served>>

\* range(days_ahead) is exhausted: return calendar
GeneratePricingCalendarReturn ==
    /\ pc = "running"
    /\ op = "generate_pricing_calendar"
    /\ frame.i >= args.days_ahead
    /\ result' = frame.calendar
    /\ pc' = "returned"
    /\ UNCHANGED <<threads, tables, op, args, raised, today, frame, served>>

\* A caller invokes get_market_forecast(months_ahead): forecast_data = [].
GetMarketForecast ==
    /\ pc = "idle"
    /\ \E months_ahead \in MonthsAhead, now \in ClockDates :
          /\ op' = "get_market_forecast"
          /\ args' = [months_ahead |-> months_ahead]
          /\ today' = now
          /\ frame' = [called_on |-> now, ticks |-> 0,
                       forecast_data |-> <<>>, i |-> 0]
    /\ pc' = "running"
    /\ UNCHANGED <<threads, tables, result, raised, served>>

\* One turn of `for i in range(months_ahead)': date.today() is read and the
\* month 30 * i days later is forecast.
GetMarketForecastLoop ==
    /\ pc = "running"
    /\ op = "get_market_forecast"
    /\ frame.i < args.months_ahead
    /\ LET future_date == AddDays(today, 30 * frame.i)
       IN  frame' = [frame EXCEPT
                        !.forecast_data = Append(@, ForecastEntry(future_date, frame.i)),
                        !.i = @ + 1]
    /\ UNCHANGED <<threads, tables, pc, op, args, result, raised, today, served>>

\* range(months_ahead) is exhausted: the insights are computed and the
\* forecast returned; max() of an empty forecast_data raises ValueError.
GetMarketForecastReturn ==
    /\ pc = "running"
    /\ op = "get_market_forecast"
    /\ frame.i >= args.months_ahead
    /\ IF frame.forecast_data = <<>>
       THEN /\ pc' = "raised"
            /\ raised' = "ValueError"
            /\ UNCHANGED result
       ELSE /\ pc' = "returned"
            /\ result' = ForecastResult(frame.forecast_data)
            /\ UNCHANGED raised
    /\ UNCHANGED <<threads, tables, op, args, today, frame, served>>

\* Midnight passes while a call is running.
Tick ==
    /\ pc = "running"
    /\ frame.ticks < MaxTicks
    /\ today' = AddDays(today, 1)
    /\ frame' = [frame EXCEPT !.ticks = @ + 1]
    /\ UNCHANGED <<threads, tables, pc, op, args, result, raised, served>>

\* The caller is done with the outcome of its call.
Finish ==
    /\ pc \in {"returned", "raised"}
    /\ pc' = "idle"
    /\ op' = "none"
    /\ args' = <<>>
    /\ result' = <<>>
    /\ raised' = "none"
    /\ today' = NoDate
    /\ frame' = NoFrame
    /\ served' = TRUE
    /\ UNCHANGED <<threads, tables>>

Next ==
    \/ CalculateOptimalPrice
    \/ GetSeasonForDate
    \/ GetEventsForDate
    \/ GetMarketBenchmarks
    \/ GeneratePricingCalendar
    \/ GeneratePricingCalendarLoop
    \/ GeneratePricingCalendarReturn
    \/ GetMarketForecast
    \/ GetMarketForecastLoop
    \/ GetMarketForecastReturn
    \/ Tick
    \/ Finish

Spec == Init /\ [][Next]_vars

\* The service constructed over an event calendar whose March 2024 entry
\* holds two windows that overlap (the duplicate key of the literal leaves
\* the shipped calendar without any such date): the two lists written for
\* "2024-03" together, in either order, and the Shopping Festival window
\* next to the Grand Prix window.
OverlappingCalendars ==
    {[_get_dubai_events_calendar_2024 EXCEPT !["2024-03"] = windows] :
        windows \in {<<GrandPrixMar, RamadanMar>>, <<RamadanMar, GrandPrixMar>>,
                     <<ShoppingFestivalJan, GrandPrixMar>>}}

InitCal ==
    /\ area_multipliers = _get_area_pricing_multipliers
    /\ seasonal_multipliers = _get_seasonal_multipliers
    /\ event_multipliers = _get_event_multipliers
    /\ dubai_events_2024 \in OverlappingCalendars
    /\ pc = "idle"
    /\ op = "none"
    /\ args = <<>>
    /\ result = <<>>
    /\ raised = "none"
    /\ today = NoDate
    /\ frame = NoFrame
    /\ served = FALSE
    /\ threads = <<>>

SpecCal == InitCal /\ [][Next]_vars

-----------------------------------------------------------------------------
(* Concurrent callers of the shared service *)

MaxThreads == 2

\* the requests of the concurrent callers
ThreadPriceRequests ==
    {[base_rate |-> 100, area |-> "marina", target_date |-> Date(2024, 3, 16),
      property_type |-> "villa", bedrooms |-> 1],
     [base_rate |-> 100, area |-> "jlt", target_date |-> Date(2024, 12, 31),
      property_type |-> "apartment", bedrooms |-> 1]}

ThreadCalendarRequests ==
    {[base_rate |-> 100, area |-> "marina", days_ahead |-> 2,
      property_type |-> "apartment", bedrooms |-> 1],
     [base_rate |-> 0, area |-> "jlt", days_ahead |-> 1,
      property_type |-> "apartment", bedrooms |-> 1]}

ThreadBenchmarkRequests ==
    {[area |-> "jbr", property_type |-> "apartment"],
     [area |-> "atlantis", property_type |-> "villa"]}

ThreadForecastRequests == {[months_ahead |-> 2], [months_ahead |-> 0]}

\* the date of the clock when the callers start
ThreadsStartDate == Date(2024, 12, 30)

\* a caller that is not in a call
IdleThread ==
    [pc |-> "idle", op |-> "none", args |-> <<>>, result |-> <<>>,
     raised |-> "none", frame |-> NoFrame]

\* the variables of the single caller of Spec
caller == <<pc, op, args, result, raised, frame, served>>

\* thread t calls calculate_optimal_price
ThreadCalculateOptimalPrice(t) ==
    /\ threads[t].pc = "idle"
    /\ \E request \in ThreadPriceRequests :
          LET out == calculate_optimal_price(area_multipliers, seasonal_multipliers,
                         event_multipliers, dubai_events_2024,
                         request.base_rate, request.area, request.target_date,
                         request.property_type, request.bedrooms)
          IN  threads' = [threads EXCEPT ![t] =
                  [pc |-> IF out.raised = "none" THEN "returned" ELSE "raised",
                   op |-> "calculate_optimal_price", args |-> request,
                   result |-> out.value, raised |-> out.raised, frame |-> NoFrame]]
    /\ UNCHANGED <<tables, today, caller>>

\* thread t calls get_market_benchmarks
ThreadGetMarketBenchmarks(t) ==
    /\ threads[t].pc = "idle"
    /\ \E request \in ThreadBenchmarkRequests :
          threads' = [threads EXCEPT ![t] =
              [pc |-> "returned", op |-> "get_market_benchmarks", args |-> request,
               result |-> get_market_benchmarks(area_multipliers, request.area,
                                                request.property_type),
               raised |-> "none", frame |-> NoFrame]]
    /\ UNCHANGED <<tables, today, caller>>

\* thread t calls generate_pricing_calendar: calendar = [],
\* start_date = date.today()
ThreadGeneratePricingCalendar(t) ==
    /\ threads[t].pc = "idle"
    /\ \E request \in ThreadCalendarRequests :
          threads' = [threads EXCEPT ![t] =
              [pc |-> "running", op |-> "generate_pricing_calendar", args |-> request,
               result |-> <<>>, raised |-> "none",
               frame |-> [reads |-> <<today>>, calendar |-> <<>>,
                          start_date |-> today, i |-> 0]]]
    /\ UNCHANGED <<tables, today, caller>>

\* mutant: the calendar under construction kept in one list of the service,
\* to which every running calendar call appends
ThreadCalendarLoop_SharedList(t) ==
    /\ threads[t].pc = "running"
    /\ threads[t].op = "generate_pricing_calendar"
    /\ threads[t].frame.i < threads[t].args.days_ahead
    /\ LET th == threads[t]
           target_date == CalendarTargetDate(th.frame.start_date, th.frame.i)
           out == CalendarPricingData(th.args.base_rate, th.args.area, target_date,
                                      th.args.property_type, th.args.bedrooms)
           sharing == {u \in DOMAIN threads :
                          /\ threads[u].pc = "running"
                          /\ threads[u].op = "generate_pricing_calendar"}
       IN  IF out.raised = "none"
           THEN threads' = [u \in DOMAIN threads |->
                    IF u \in sharing
                    THEN [threads[u] EXCEPT
                             !.frame.calendar = Append(@, CalendarEntry(target_date, out.value)),
                             !.frame.i = IF u = t THEN @ + 1 ELSE @]
                    ELSE threads[u]]
           ELSE threads' = [threads EXCEPT ![t].pc = "raised",
                                           ![t].raised = out.raised]
    /\ UNCHANGED <<tables, today, caller>>

\* one turn of the calendar loop of thread t
ThreadCalendarLoop(t) ==
    /\ threads[t].pc = "running"
    /\ threads[t].op = "generate_pricing_calendar"
    /\ threads[t].frame.i < threads[t].args.days_ahead
    /\ LET th == threads[t]
           target_date == CalendarTargetDate(th.frame.start_date, th.frame.i)
           out == CalendarPricingData(th.args.base_rate, th.args.area, target_date,
                                      th.args.property_type, th.args.bedrooms)
       IN  IF out.raised = "none"
           THEN threads' = [threads EXCEPT
                    ![t].frame.calendar = Append(@, CalendarEntry(target_date, out.value)),
                    ![t].frame.i = @ + 1]
           ELSE threads' = [threads EXCEPT ![t].pc = "raised",
                                           ![t].raised = out.raised]
    /\ UNCHANGED <<tables, today, caller>>

\* thread t returns its calendar
ThreadCalendarReturn(t) ==
    /\ threads[t].pc = "running"
    /\ threads[t].op = "generate_pricing_calendar"
    /\ threads[t].frame.i >= threads[t].args.days_ahead
    /\ threads' = [threads EXCEPT ![t].pc = "returned",
                                  ![t].result = threads[t].frame.calendar]
    /\ UNCHANGED <<tables, today, caller>>

\* thread t calls get_market_forecast: forecast_data = []
ThreadGetMarketForecast(t) ==
    /\ threads[t].pc = "idle"
    /\ \E request \in ThreadForecastRequests :
          threads' = [threads EXCEPT ![t] =
              [pc |-> "running", op |-> "get_market_forecast", args |-> request,
               result |-> <<>>, raised |-> "none",
               frame |-> [reads |-> <<>>, forecast_data |-> <<>>, i |-> 0]]]
    /\ UNCHANGED <<tables, today, caller>>

\* one turn of the forecast loop of thread t: date.today() is read
ThreadForecastLoop(t) ==
    /\ threads[t].pc = "running"
    /\ threads[t].op = "get_market_forecast"
    /\ threads[t].frame.i < threads[t].args.months_ahead
    /\ LET future_date == AddDays(today, 30 * threads[t].frame.i)
       IN  threads' = [threads EXCEPT
               ![t].frame.forecast_data =
                   Append(@, ForecastEntry(future_date, threads[t].frame.i)),
               ![t].frame.reads = Append(@, today),
               ![t].frame.i = @ + 1]
    /\ UNCHANGED <<tables, today, caller>>

\* thread t returns its forecast, or max() of an empty list raises
ThreadForecastReturn(t) ==
    /\ threads[t].pc = "running"
    /\ threads[t].op = "get_market_forecast"
    /\ threads[t].frame.i >= threads[t].args.months_ahead
    /\ IF threads[t].frame.forecast_data = <<>>
       THEN threads' = [threads EXCEPT ![t].pc = "raised", ![t].raised = "ValueError"]
       ELSE threads' = [threads EXCEPT
                ![t].pc = "returned",
                ![t].result = ForecastResult(threads[t].frame.forecast_data)]
    /\ UNCHANGED <<tables, today, caller>>

\* thread t is done with the outcome of its call
ThreadFinish(t) ==
    /\ threads[t].pc \in {"returned", "raised"}
    /\ threads' = [threads EXCEPT ![t] = IdleThread]
    /\ UNCHANGED <<tables, today, caller>>

\* midnight passes for every caller
Midnight ==
    /\ ToOrdinal(today) < ToOrdinal(ThreadsStartDate) + MaxTicks
    /\ today' = AddDays(today, 1)
    /\ UNCHANGED <<tables, threads, caller>>

NextConc ==
    \/ \E t \in DOMAIN threads : ThreadCalculateOptimalPrice(t)
    \/ \E t \in DOMAIN threads : ThreadGetMarketBenchmarks(t)
    \/ \E t \in DOMAIN threads : ThreadGeneratePricingCalendar(t)
    \/ \E t \in DOMAIN threads : ThreadCalendarLoop(t)
    \/ \E t \in DOMAIN threads : ThreadCalendarReturn(t)
    \/ \E t \in DOMAIN threads : ThreadGetMarketForecast(t)
    \/ \E t \in DOMAIN threads : ThreadForecastLoop(t)
    \/ \E t \in DOMAIN threads : ThreadForecastReturn(t)
    \/ \E t \in DOMAIN threads : ThreadFinish(t)
    \/ Midnight

InitConc ==
    /\ area_multipliers = _get_area_pricing_multipliers
    /\ seasonal_multipliers = _get_seasonal_multipliers
    /\ event_multipliers = _get_event_multipliers
    /\ dubai_events_2024 = _get_dubai_events_calendar_2024
    /\ pc = "idle"
    /\ op = "none"
    /\ args = <<>>
    /\ result = <<>>
    /\ raised = "none"
    /\ frame = NoFrame
    /\ served = FALSE
    /\ today = ThreadsStartDate
    /\ threads = [t \in 1..MaxThreads |-> IdleThread]

SpecConc == InitConc /\ [][NextConc]_vars

-----------------------------------------------------------------------------
(* Vocabulary of the properties *)

\* calculate_optimal_price was called and has returned / has ended
PriceReturned == op = "calculate_optimal_price" /\ pc = "returned"
PriceEnded == op = "calculate_optimal_price" /\ pc # "idle"

\* the call's other arguments are such as the pricing request admits
RateOk == args.base_rate > 0
AreaOk == args.area \in DOMAIN area_multipliers
DateOk == args.target_date.year = 2024
BedroomsOk == args.bedrooms >= 0

\* base * f1 * f2 * ... for factors in tenths
RECURSIVE Product(_, _)
Product(x, factors) ==
    IF factors = <<>> THEN x ELSE Product(MulTenths(x, Head(factors)), Tail(factors))

\* the months of the four seasons
PeakWinterMonths == {12, 1, 2}
HighWinterMonths == {3, 11}
ShoulderMonths == {4, 10}
LowSummerMonths == {5, 6, 7, 8, 9}

SeasonOfMonth(m) ==
    CASE m \in PeakWinterMonths -> "peak_winter"
      [] m \in HighWinterMonths -> "high_winter"
      [] m \in ShoulderMonths -> "shoulder"
      [] m \in LowSummerMonths -> "low_summer"

\* Friday or Saturday, from the day count: 2024-02-02 was a Friday
FridayOrSaturday(dt) ==
    (ToOrdinal(dt) - ToOrdinal(Date(2024, 2, 2))) % 7 \in {0, 1}

WeekendFactor(dt) == IF FridayOrSaturday(dt) THEN 12 ELSE 10

TypeFactor(property_type) ==
    CASE property_type = "villa" -> 15
      [] property_type = "penthouse" -> 20
      [] property_type = "studio" -> 8
      [] OTHER -> 10

\* clamp(0.7 + 0.3 * b, 0.5, 3.0) in tenths
Clamp(x, lo, hi) == IF x < lo THEN lo ELSE IF x > hi THEN hi ELSE x
BedroomFactor(b) == Clamp(7 + 3 * b, 5, 30)

\* the price the composition rule gives for the call, with area factor a and
\* event factor e
ComposedPrice(a, e) ==
    Round2(Product(Dec(args.base_rate),
        <<a, seasonal_multipliers[SeasonOfMonth(args.target_date.month)], e,
          WeekendFactor(args.target_date), TypeFactor(args.property_type),
          BedroomFactor(args.bedrooms)>>))

\* the windows of the calendar that are active on a date
ActiveWindows(dt) ==
    LET key == StrftimeYm(dt)
    IN  IF key \in DOMAIN dubai_events_2024
        THEN {i \in 1..Len(dubai_events_2024[key]) : dt.day \in dubai_events_2024[key][i].days}
        ELSE {}

\* the largest multiplier among the reported active events
MaxActiveMultiplier(active_events) ==
    CHOOSE x \in {active_events[i].multiplier : i \in 1..Len(active_events)} :
        \A j \in 1..Len(active_events) : active_events[j].multiplier <= x

-----------------------------------------------------------------------------
(* C1 *)

\* C1: for a base rate > 0, an area of the reference table and a bedroom
\* count >= 0, suggested_price is base_rate x area x season x event factor x
\* weekend (1.2 on Friday and Saturday) x property type x bedroom multiplier,
\* rounded to 2 decimals; the two worked examples give 288.00 and 56.00.
C1_PriceIsComposition ==
    (PriceEnded /\ args.base_rate > 0 /\ args.area \in DOMAIN area_multipliers
        /\ args.bedrooms >= 0)
    => /\ pc = "returned"
       /\ result.suggested_price =
            ComposedPrice(area_multipliers[args.area],
                          result.pricing_factors.event_multiplier)
       /\ (args = [base_rate |-> 100, area |-> "marina", target_date |-> Date(2024, 2, 3),
                   property_type |-> "apartment", bedrooms |-> 1])
            => result.suggested_price = 28800
       /\ (args = [base_rate |-> 100, area |-> "jlt", target_date |-> Date(2024, 4, 16),
                   property_type |-> "studio", bedrooms |-> 0])
            => result.suggested_price = 5600

C1_Witness ==
    /\ PriceReturned
    /\ args = [base_rate |-> 100, area |-> "marina", target_date |-> Date(2024, 2, 3),
               property_type |-> "apartment", bedrooms |-> 1]
    /\ result.pricing_factors.active_events = <<>>
    /\ result.suggested_price = 28800

-----------------------------------------------------------------------------
(* C2 *)

-----------------------------------------------------------------------------
(* C3 *)

\* C3: for every base rate <= 0 (the other arguments being valid) the call
\* fails with InvalidPricingInput and never returns a result.
C3_NonPositiveRateRejected ==
    (PriceEnded /\ args.base_rate <= 0 /\ AreaOk /\ DateOk /\ BedroomsOk)
    => (pc = "raised" /\ raised = "InvalidPricingInput")

-----------------------------------------------------------------------------
(* C4 *)

\* C4 (as claimed): a call with a target date outside 2024, the year of the
\* event calendar (its other arguments being valid), fails with
\* InvalidPricingInput.
C4_DateOutsideCalendarFails ==
    (PriceEnded /\ ~DateOk /\ RateOk /\ AreaOk /\ BedroomsOk)
    => (pc = "raised" /\ raised = "InvalidPricingInput")

\* C4 (amended): a target date outside 2024 is not rejected: the call returns
\* for every base rate other than 0, priced with no events (event factor 1.0,
\* empty active_events).
C4_DateOutsideCalendarNoEvents ==
    (PriceEnded /\ args.target_date.year # 2024)
    => /\ pc = "raised" <=> args.base_rate = 0
       /\ pc = "returned" =>
            /\ result.pricing_factors.active_events = <<>>
            /\ result.pricing_factors.event_multiplier = 10
            /\ (args.bedrooms >= 0 =>
                  result.suggested_price =
                    ComposedPrice(AreaMultiplierOf(area_multipliers, args.area), 10))

\* a date of January 2025, a month whose 2024 namesake has an event window
C4_Witness ==
    /\ PriceReturned
    /\ args.target_date = Date(2025, 1, 2)
    /\ args.base_rate = 100
    /\ result.pricing_factors.active_events = <<>>

-----------------------------------------------------------------------------
(* C5 *)

-----------------------------------------------------------------------------
(* C6 *)

\* C6: for a valid request, the event factor equals the maximum multiplier
\* among the events active on the date and is 1.0 only when no event is
\* active (a date whose only event is Ramadan is priced with 0.8).
C6_EventFactorIsMaxOfActive ==
    (PriceReturned /\ RateOk /\ AreaOk /\ BedroomsOk)
    => LET active_events == result.pricing_factors.active_events
       IN  result.pricing_factors.event_multiplier =
             (IF active_events = <<>> THEN 10 ELSE MaxActiveMultiplier(active_events))

-----------------------------------------------------------------------------
(* C7 *)

\* C7: get_season_for_date depends on the month alone and is total: Dec, Jan,
\* Feb -> peak_winter; Mar, Nov -> high_winter; Apr, Oct -> shoulder;
\* May..Sep -> low_summer; the four month sets are pairwise disjoint and
\* cover 1..12.  The season being this function of the month, two calls with
\* the same date return the same season.
C7_SeasonPartition ==
    /\ PeakWinterMonths \cup HighWinterMonths \cup ShoulderMonths \cup LowSummerMonths = 1..12
    /\ Cardinality(PeakWinterMonths) + Cardinality(HighWinterMonths)
         + Cardinality(ShoulderMonths) + Cardinality(LowSummerMonths) = 12
    /\ (op = "get_season_for_date" /\ pc # "idle")
       => /\ pc = "returned"
          /\ result \in {"peak_winter", "high_winter", "shoulder", "low_summer"}
          /\ result = "peak_winter" <=> args.target_date.month \in PeakWinterMonths
          /\ result = "high_winter" <=> args.target_date.month \in HighWinterMonths
          /\ result = "shoulder" <=> args.target_date.month \in ShoulderMonths
          /\ result = "low_summer" <=> args.target_date.month \in LowSummerMonths
    /\ PriceReturned =>
          result.pricing_factors.season = SeasonOfMonth(args.target_date.month)

C7_Witness ==
    /\ op = "get_season_for_date"
    /\ pc = "returned"
    /\ args.target_date.month = 11
    /\ result = "high_winter"

-----------------------------------------------------------------------------
(* C8 *)

\* C8: the 1.2 weekend premium is applied iff the target date is a Friday or
\* a Saturday: in the reference week 2-8 February 2024 (Friday .. Thursday)
\* and on every other date, the factor is recorded and multiplied into the
\* price on exactly those two weekdays.
C8_WeekendPremiumFriSat ==
    PriceReturned
    => LET pf == result.pricing_factors
           recorded == "weekend_multiplier" \in DOMAIN pf
           dt == args.target_date
       IN  /\ recorded <=> FridayOrSaturday(dt)
           /\ recorded => pf.weekend_multiplier = 12
           /\ (dt.year = 2024 /\ dt.month = 2 /\ dt.day \in 2..8)
                => (recorded <=> dt.day \in {2, 3})
           /\ result.suggested_price =
                Round2(Product(Dec(args.base_rate),
                    <<pf.area_multiplier, pf.seasonal_multiplier, pf.event_multiplier,
                      IF FridayOrSaturday(dt) THEN 12 ELSE 10,
                      TypeFactor(args.property_type), pf.bedroom_multiplier>>))

\* a Friday, priced with the premium
C8_Witness ==
    /\ PriceReturned
    /\ args.target_date = Date(2024, 2, 2)
    /\ args.base_rate = 100 /\ args.area = "jlt"
    /\ args.property_type = "apartment" /\ args.bedrooms = 1
    /\ result.pricing_factors.weekend_multiplier = 12
    /\ result.suggested_price = 18000

-----------------------------------------------------------------------------
(* C9 *)

\* C9: for every bedroom count b >= 0 the bedroom multiplier is
\* clamp(0.7 + 0.3 * b, 0.5, 3.0): 0.7 for b = 0, never below 0.7,
\* non-decreasing in b, never above 3.0, and exactly 3.0 for b = 20.
C9_BedroomMultiplierClamp ==
    (PriceReturned /\ args.bedrooms >= 0)
    => LET bm == result.pricing_factors.bedroom_multiplier
       IN  /\ bm = BedroomFactor(args.bedrooms)
           /\ bm >= 7 /\ bm <= 30
           /\ args.bedrooms = 0 => bm = 7
           /\ args.bedrooms = 20 => bm = 30
           /\ \A b \in 0..args.bedrooms : BedroomMultiplier(b) <= bm

C9_Witness ==
    /\ PriceReturned
    /\ args.bedrooms = 20
    /\ result.pricing_factors.bedroom_multiplier = 30

-----------------------------------------------------------------------------
(* C10 *)

-----------------------------------------------------------------------------
(* C11 *)

\* the multipliers recorded in the breakdown of the returned price, the
\* weekend one being 1.0 when none is recorded
RecordedWeekend ==
    IF "weekend_multiplier" \in DOMAIN result.pricing_factors
    THEN result.pricing_factors.weekend_multiplier ELSE 10

RecordedMultipliers ==
    <<result.pricing_factors.area_multiplier,
      result.pricing_factors.seasonal_multiplier,
      result.pricing_factors.event_multiplier,
      RecordedWeekend,
      result.pricing_factors.bedroom_multiplier>>

ListedTypes == {"villa", "penthouse", "studio"}

\* C11: the property type multiplies the price by 1.5 for "villa", 2.0 for
\* "penthouse", 0.8 for "studio" and 1.0 for every other string; a type that
\* is not listed is never the cause of an error (the call fails for base
\* rate 0 only) and its price is exactly the product of the other factors.
C11_PropertyTypeMultiplier ==
    PriceEnded
    => /\ pc = "raised" <=> args.base_rate = 0
       /\ pc = "returned" =>
            /\ result.suggested_price =
                 Round2(Product(Dec(args.base_rate),
                                RecordedMultipliers \o <<TypeFactor(args.property_type)>>))
            /\ args.property_type \notin ListedTypes =>
                 result.suggested_price =
                   Round2(Product(Dec(args.base_rate), RecordedMultipliers))

C11_Witness ==
    /\ PriceReturned
    /\ args = [base_rate |-> 100, area |-> "marina", target_date |-> Date(2024, 2, 3),
               property_type |-> "townhouse", bedrooms |-> 1]
    /\ result.suggested_price = 28800

-----------------------------------------------------------------------------
(* C12 *)

\* m of the returned result, in hundredths: the season multiplier times the
\* event factor of its breakdown
RecordedDemandProduct ==
    result.pricing_factors.seasonal_multiplier * result.pricing_factors.event_multiplier

\* C12: with m = season multiplier x event factor of the result, demand_level
\* is "Very High" iff m >= 2.5, "High" iff 1.5 <= m < 2.5, "Medium" iff
\* 1.0 <= m < 1.5 and "Low" iff m < 1.0.
C12_DemandLevelThresholds ==
    PriceReturned
    => /\ result.demand_level = "Very High" <=> RecordedDemandProduct >= 250
       /\ result.demand_level = "High" <=>
            (150 <= RecordedDemandProduct /\ RecordedDemandProduct < 250)
       /\ result.demand_level = "Medium" <=>
            (100 <= RecordedDemandProduct /\ RecordedDemandProduct < 150)
       /\ result.demand_level = "Low" <=> RecordedDemandProduct < 100

\* the threshold 1.5 met exactly: peak winter without an event
C12_Witness ==
    /\ PriceReturned
    /\ RecordedDemandProduct = 150
    /\ result.demand_level = "High"

-----------------------------------------------------------------------------
(* C13 *)

\* the names of the events whose window is active on a date
ActiveEventNames(dt) ==
    {dubai_events_2024[StrftimeYm(dt)][i].name : i \in ActiveWindows(dt)}

\* the demand level of one fixed request priced for the date dt
ReferenceDemandLevel(dt) ==
    calculate_optimal_price(area_multipliers, seasonal_multipliers,
        event_multipliers, dubai_events_2024,
        100, "jlt", dt, "apartment", 1).value.demand_level

\* C13: demand_level depends on the season and the events of the date only:
\* any request for a date in the same month with the same set of active
\* events gets the demand level of the reference request for that date,
\* whatever its base rate, area, weekday, property type and bedroom count
\* (so any two such requests get the same level).
C13_DemandLevelFromSeasonAndEvents ==
    PriceReturned
    => \A dt \in TargetDates :
         (/\ dt.month = args.target_date.month
          /\ ActiveEventNames(dt) = ActiveEventNames(args.target_date))
         => ReferenceDemandLevel(dt) = result.demand_level

\* a weekend villa in Palm Jumeirah during Ramadan has the level of the
\* reference request of a Ramadan Sunday
C13_Witness ==
    /\ PriceReturned
    /\ args = [base_rate |-> 155, area |-> "palm_jumeirah", target_date |-> Date(2024, 3, 16),
               property_type |-> "villa", bedrooms |-> 8]
    /\ ActiveEventNames(Date(2024, 3, 10)) = ActiveEventNames(Date(2024, 3, 16))
    /\ ActiveEventNames(Date(2024, 3, 16)) # {}
    /\ ReferenceDemandLevel(Date(2024, 3, 10)) = result.demand_level

-----------------------------------------------------------------------------
(* C14 *)

\* the outcome of the call's arguments on a service that has just been
\* constructed
FreshOutcome ==
    calculate_optimal_price(_get_area_pricing_multipliers, _get_seasonal_multipliers,
        _get_event_multipliers, _get_dubai_events_calendar_2024,
        args.base_rate, args.area, args.target_date, args.property_type, args.bedrooms)

\* C14: calculate_optimal_price is deterministic: after any sequence of
\* earlier calls of any operation, the outcome of a call (its result or its
\* failure) is the one the same arguments get from a service that has served
\* no call yet, so identical inputs give identical results.
C14_Deterministic ==
    PriceEnded => (raised = FreshOutcome.raised /\ result = FreshOutcome.value)

\* a Ramadan price returned by a service that has answered calls before
C14_Witness ==
    /\ PriceReturned
    /\ served
    /\ args.target_date = Date(2024, 3, 16)
    /\ result.pricing_factors.active_events # <<>>
    /\ result = FreshOutcome.value

-----------------------------------------------------------------------------
(* C15 *)

\* the keys under which a breakdown can record a multiplier
MultiplierKeys ==
    <<"area_multiplier", "seasonal_multiplier", "event_multiplier",
      "weekend_multiplier", "property_type_multiplier", "bedroom_multiplier">>

\* every multiplier the breakdown of the returned price records
AllRecordedMultipliers ==
    LET present == SelectSeq(MultiplierKeys,
                       LAMBDA key : key \in DOMAIN result.pricing_factors)
    IN  [i \in 1..Len(present) |-> result.pricing_factors[present[i]]]

\* C15: pricing_factors records every multiplier that was applied (area,
\* season, event, weekend, property type, bedrooms): for every valid request,
\* the villa, penthouse and studio ones included, the recorded base rate
\* times all the recorded multipliers, rounded to 2 decimals, is
\* suggested_price.
C15_BreakdownReproducesPrice ==
    (PriceReturned /\ RateOk /\ AreaOk /\ DateOk /\ BedroomsOk)
    => result.suggested_price =
         Round2(Product(Dec(result.pricing_factors.base_rate), AllRecordedMultipliers))

-----------------------------------------------------------------------------
(* C16 *)

\* generate_pricing_calendar was called and has ended / has returned
CalendarEnded == op = "generate_pricing_calendar" /\ pc \in {"returned", "raised"}
CalendarReturned == op = "generate_pricing_calendar" /\ pc = "returned"

\* C16: for days_ahead = N >= 1 (and a base rate > 0) the call returns
\* exactly N entries whose dates are, in order, the date of the clock when
\* the call began and the N - 1 days that follow it, each with the name of
\* its weekday, even when midnight passes during the call.
C16_CalendarCoversNDays ==
    (CalendarEnded /\ args.days_ahead >= 1 /\ args.base_rate > 0)
    => /\ pc = "returned"
       /\ Len(result) = args.days_ahead
       /\ \A n \in 1..Len(result) :
            /\ result[n].date = Isoformat(AddDays(frame.called_on, n - 1))
            /\ result[n].day_name = StrftimeA(AddDays(frame.called_on, n - 1))

\* three days from Monday 2024-12-30, midnight having passed during the call
C16_Witness ==
    /\ CalendarReturned
    /\ args.days_ahead = 3
    /\ frame.called_on = Date(2024, 12, 30)
    /\ frame.ticks = 1
    /\ today = Date(2024, 12, 31)
    /\ Len(result) = 3
    /\ result[1].date = "2024-12-30"
    /\ result[1].day_name = "Monday"
    /\ result[3].date = "2025-01-01"

-----------------------------------------------------------------------------
(* C17 *)

\* C17: generate_pricing_calendar with days_ahead <= 0 (its other arguments
\* being valid) fails with InvalidPricingInput and returns no calendar, an
\* empty list included.
C17_NonPositiveDaysAheadRejected ==
    (CalendarEnded /\ args.days_ahead <= 0 /\ RateOk /\ AreaOk /\ BedroomsOk)
    => (pc = "raised" /\ raised = "InvalidPricingInput")

-----------------------------------------------------------------------------
(* C18 *)

\* what calculate_optimal_price returns on its own for the request of the
\* calendar and the n-th day from the date the call began
StandAlone(n) ==
    calculate_optimal_price(area_multipliers, seasonal_multipliers,
        event_multipliers, dubai_events_2024,
        args.base_rate, args.area, AddDays(frame.called_on, n - 1),
        args.property_type, args.bedrooms).value

\* C18: every entry of a returned calendar carries the suggested_price,
\* demand_level, season, names of the active events and pricing_factors that
\* calculate_optimal_price returns on its own for the same base rate, area,
\* property type and bedrooms on the entry's date; an entry is a function of
\* its own date, not of another entry.
C18_EntryIsStandAlonePrice ==
    CalendarReturned
    => \A n \in 1..Len(result) :
         /\ result[n].suggested_price = StandAlone(n).suggested_price
         /\ result[n].demand_level = StandAlone(n).demand_level
         /\ result[n].season = StandAlone(n).pricing_factors.season
         /\ result[n].active_events =
              [j \in 1..Len(StandAlone(n).pricing_factors.active_events) |->
                  StandAlone(n).pricing_factors.active_events[j].name]
         /\ result[n].pricing_factors = StandAlone(n).pricing_factors

\* a villa from 2024-01-27: the Shopping Festival ends between the second
\* and the third entry
C18_Witness ==
    /\ CalendarReturned
    /\ args.property_type = "villa"
    /\ args.days_ahead = 3
    /\ frame.called_on = Date(2024, 1, 27)
    /\ result[2].active_events = <<"Dubai Shopping Festival">>
    /\ result[3].active_events = <<>>
    /\ result[2].suggested_price > result[3].suggested_price
    /\ result[3].suggested_price = StandAlone(3).suggested_price

-----------------------------------------------------------------------------
(* C19 *)

\* get_market_forecast was called and has ended / has returned
ForecastEnded == op = "get_market_forecast" /\ pc \in {"returned", "raised"}
ForecastReturned == op = "get_market_forecast" /\ pc = "returned"

\* C19: for months_ahead = N >= 1 the call returns exactly N forecast
\* entries; the confidence of entry i (from 0) is max(60, 95 - 3 * i), so it
\* never increases from an entry to the next and lies between 60 and 95.
C19_ForecastConfidence ==
    (ForecastEnded /\ args.months_ahead >= 1)
    => /\ pc = "returned"
       /\ Len(result.forecast_data) = args.months_ahead
       /\ \A n \in 1..Len(result.forecast_data) :
            /\ result.forecast_data[n].confidence =
                 (IF 95 - 3 * (n - 1) > 60 THEN 95 - 3 * (n - 1) ELSE 60)
            /\ result.forecast_data[n].confidence >= 60
            /\ result.forecast_data[n].confidence <= 95
            /\ n > 1 => result.forecast_data[n].confidence
                          <= result.forecast_data[n - 1].confidence

\* thirteen months: 95 for the first, 62 for the twelfth, the floor of 60 for
\* the thirteenth
C19_Witness ==
    /\ ForecastReturned
    /\ args.months_ahead = 13
    /\ Len(result.forecast_data) = 13
    /\ result.forecast_data[1].confidence = 95
    /\ result.forecast_data[12].confidence = 62
    /\ result.forecast_data[13].confidence = 60

-----------------------------------------------------------------------------
(* C20 *)

\* C20: get_market_forecast with months_ahead <= 0 (0 and the negative
\* values alike) fails with InvalidPricingInput and returns no forecast.
C20_NonPositiveMonthsAheadRejected ==
    (ForecastEnded /\ args.months_ahead <= 0)
    => (pc = "raised" /\ raised = "InvalidPricingInput")

-----------------------------------------------------------------------------
(* C21 *)

\* the first day of the k-th calendar month after the month of dt
MonthAfter(dt, k) ==
    Date(dt.year + ((dt.month - 1 + k) \div 12), ((dt.month - 1 + k) % 12) + 1, 1)

-----------------------------------------------------------------------------
(* C22 *)

\* C22: in a returned forecast peak_month is an entry of forecast_data whose
\* forecasted_revenue is >= that of every entry, low_month an entry whose
\* forecasted_revenue is <= that of every entry, and average_confidence is
\* the mean of the entries' confidences rounded to 1 decimal (the multiple
\* of 0.1 at most 0.05 from the mean).
C22_ForecastInsights ==
    ForecastReturned
    => LET data == result.forecast_data
           N == Len(data)
           total == SumConfidence(data)
           avg == result.insights.average_confidence
       IN  /\ \E n \in 1..N : data[n] = result.insights.peak_month
           /\ \A n \in 1..N :
                data[n].forecasted_revenue <= result.insights.peak_month.forecasted_revenue
           /\ \E n \in 1..N : data[n] = result.insights.low_month
           /\ \A n \in 1..N :
                data[n].forecasted_revenue >= result.insights.low_month.forecasted_revenue
           /\ 2 * (avg * N - 10 * total) <= N
           /\ 2 * (10 * total - avg * N) <= N

\* thirteen months from 2026-11-04: the peak is February 2027, the trough
\* August 2027, the mean confidence 1002 / 13 = 77.08 reported as 77.1
C22_Witness ==
    /\ ForecastReturned
    /\ args.months_ahead = 13
    /\ frame.called_on = Date(2026, 11, 4)
    /\ frame.ticks = 0
    /\ result.insights.peak_month.month = "Feb 2027"
    /\ result.insights.peak_month.forecasted_revenue = 824812
    /\ result.insights.low_month.month = "Aug 2027"
    /\ result.insights.low_month.forecasted_revenue = 315786
    /\ result.insights.average_confidence = 771

-----------------------------------------------------------------------------
(* C23 *)

\* get_market_benchmarks was called and has ended / has returned
BenchmarksEnded == op = "get_market_benchmarks" /\ pc \in {"returned", "raised"}
BenchmarksReturned == op = "get_market_benchmarks" /\ pc = "returned"

\* C23: for an area of the reference table with multiplier m (in tenths:
\* t = 10 m) the benchmarks are average_daily_rate = 120 m (12 t),
\* occupancy_rate = 65 + 10 m (65 + t), revpar = 120 m * (0.65 + 0.1 m)
\* (12 t (65 + t) hundredths) and market_health_score = 60 + 20 m (60 + 2 t),
\* none of them clamped, whatever the property_type argument.
C23_BenchmarkMetrics ==
    (BenchmarksEnded /\ AreaOk)
    => LET t == area_multipliers[args.area]
       IN  /\ pc = "returned"
           /\ result.market_metrics.average_daily_rate = 12 * t * 100
           /\ result.market_metrics.occupancy_rate = (65 + t) * 10
           /\ result.market_metrics.revpar = 12 * t * (65 + t)
           /\ result.market_metrics.market_health_score = (60 + 2 * t) * 10

\* a villa in the Marina: 192.00, 81.0 %, 155.52 and 92.0
C23_Witness ==
    /\ BenchmarksReturned
    /\ args = [area |-> "marina", property_type |-> "villa"]
    /\ result.market_metrics =
         [average_daily_rate |-> 19200, occupancy_rate |-> 810,
          revpar |-> 15552, market_health_score |-> 920]

-----------------------------------------------------------------------------
(* C24 *)

-----------------------------------------------------------------------------
(* C25 *)

PremiumAreas == {"palm_jumeirah", "marina", "downtown", "jbr"}
StandardAreas == {"jumeirah", "business_bay", "jlt"}
BudgetAreas == {"silicon_oasis", "deira", "bur_dubai"}

\* C25: for an area of the reference table with multiplier m the tier is
\* "Premium" iff m >= 1.4, "Standard" iff 1.0 <= m < 1.4 and "Budget" iff
\* m < 1.0: Premium for palm_jumeirah, marina, downtown and jbr, Standard
\* for jumeirah, business_bay and jlt, Budget for silicon_oasis, deira and
\* bur_dubai.
C25_TierThresholds ==
    (BenchmarksReturned /\ AreaOk)
    => LET t == area_multipliers[args.area]
           tier == result.area_insights.tier
       IN  /\ tier = "Premium" <=> t >= 14
           /\ tier = "Standard" <=> (10 <= t /\ t < 14)
           /\ tier = "Budget" <=> t < 10
           /\ tier = "Premium" <=> args.area \in PremiumAreas
           /\ tier = "Standard" <=> args.area \in StandardAreas
           /\ tier = "Budget" <=> args.area \in BudgetAreas

\* jbr, whose multiplier is the threshold 1.4 itself
C25_Witness ==
    /\ BenchmarksReturned
    /\ args.area = "jbr"
    /\ area_multipliers[args.area] = 14
    /\ result.area_insights.tier = "Premium"

-----------------------------------------------------------------------------
(* C26 *)

\* C26: the recommendations follow the tier: for every area of the
\* reference table the list opens with the premium-positioning pair exactly
\* when the tier is "Premium", with the competitive-rates pair exactly when
\* it is "Standard" and with the value-positioning pair exactly when it is
\* "Budget".
C26_RecommendationsFollowTier ==
    (BenchmarksReturned /\ AreaOk)
    => LET opening == SubSeq(result.recommendations, 1, 2)
           tier == result.area_insights.tier
       IN  /\ tier = "Premium" <=>
                opening = <<"Premium positioning - focus on luxury amenities",
                            "Target high-end business and leisure travelers">>
           /\ tier = "Standard" <=>
                opening = <<"Competitive rates with quality amenities",
                            "Balanced approach for business and leisure">>
           /\ tier = "Budget" <=>
                opening = <<"Value positioning - emphasize cost-effectiveness",
                            "Target budget-conscious and longer-stay guests">>

-----------------------------------------------------------------------------
(* C28 *)

\* get_events_for_date was called and has returned
EventsReturned == op = "get_events_for_date" /\ pc = "returned"

\* the event windows written in the calendar of the source, each with the
\* year-month it is written under
DeclaredWindows ==
    {[key |-> "2024-01", event |-> ShoppingFestivalJan],
     [key |-> "2024-03", event |-> GrandPrixMar],
     [key |-> "2024-03", event |-> RamadanMar],
     [key |-> "2024-04", event |-> RamadanApr],
     [key |-> "2024-04", event |-> EidAlFitrApr],
     [key |-> "2024-06", event |-> EidAlAdhaJun],
     [key |-> "2024-10", event |-> GitexOct],
     [key |-> "2024-12", event |-> NationalDayDec],
     [key |-> "2024-12", event |-> NewYearDec]}

\* the declared windows that cover a date
WindowsCovering(dt) ==
    {w \in DeclaredWindows : StrftimeYm(dt) = w.key /\ dt.day \in w.event.days}

\* C28: get_events_for_date returns, for a date, a list holding every
\* declared event window whose year-month is the date's and whose day set
\* holds the date's day, and the empty list when there is none; so the
\* Formula 1 UAE Grand Prix is returned for 8, 9 and 10 March 2024 and
\* Ramadan for 10 to 31 March 2024.
C28_DeclaredWindowsAreReturned ==
    EventsReturned
    => /\ \A w \in WindowsCovering(args.target_date) :
            \E n \in 1..Len(result) : result[n] = w.event
       /\ WindowsCovering(args.target_date) = {} => result = <<>>
       /\ (args.target_date \in {Date(2024, 3, 8), Date(2024, 3, 9), Date(2024, 3, 10)})
            => \E n \in 1..Len(result) :
                  /\ result[n].name = "Formula 1 UAE Grand Prix"
                  /\ event_multipliers[result[n].type] = 30

-----------------------------------------------------------------------------
(* C29 *)

\* the dates the clock can have shown during the call
DatesDuringCall == {AddDays(frame.called_on, k) : k \in 0..frame.ticks}

\* C29: all entries of a returned forecast are anchored on one current date
\* d0 (a date of the clock during the call): entry i carries the month label
\* and the season of d0 + 30 * i days, also when midnight passes while the
\* call is running.
C29_ForecastSingleAnchor ==
    ForecastReturned
    => \E d0 \in DatesDuringCall :
         \A n \in 1..Len(result.forecast_data) :
            /\ result.forecast_data[n].month = StrftimeBY(AddDays(d0, 30 * (n - 1)))
            /\ result.forecast_data[n].season =
                 SeasonOfMonth(AddDays(d0, 30 * (n - 1)).month)

-----------------------------------------------------------------------------
(* C30 *)

\* C30: for each of the ten areas of the reference table the benchmarks
\* report an occupancy_rate of at most 100 and a market_health_score of at
\* most 100: no multiplier of the table takes 65 + 10 m or 60 + 20 m above
\* 100.
C30_ReferenceAreasWithin100 ==
    /\ \A area \in DOMAIN area_multipliers :
          /\ 65 + area_multipliers[area] <= 100
          /\ 60 + 2 * area_multipliers[area] <= 100
    /\ (BenchmarksReturned /\ AreaOk)
       => /\ result.market_metrics.occupancy_rate <= 1000
          /\ result.market_metrics.market_health_score <= 1000

\* Palm Jumeirah, the highest multiplier: occupancy 85.0, health score 100.0
C30_Witness ==
    /\ BenchmarksReturned
    /\ args.area = "palm_jumeirah"
    /\ result.market_metrics.occupancy_rate = 850
    /\ result.market_metrics.market_health_score = 1000

-----------------------------------------------------------------------------
(* C27 *)

\* what calculate_optimal_price returns for a request and a date on a
\* service that has just been constructed
FreshPrice(request, target_date) ==
    calculate_optimal_price(_get_area_pricing_multipliers, _get_seasonal_multipliers,
        _get_event_multipliers, _get_dubai_events_calendar_2024,
        request.base_rate, request.area, target_date,
        request.property_type, request.bedrooms).value

\* the result of the call of a thread run alone on the same arguments and
\* the same dates of the clock
AloneResult(th) ==
    CASE th.op = "calculate_optimal_price" ->
           FreshPrice(th.args, th.args.target_date)
      [] th.op = "get_market_benchmarks" ->
           get_market_benchmarks(_get_area_pricing_multipliers,
                                 th.args.area, th.args.property_type)
      [] th.op = "generate_pricing_calendar" ->
           [n \in 1..th.args.days_ahead |->
               LET target_date == AddDays(th.frame.reads[1], n - 1)
               IN  CalendarEntry(target_date, FreshPrice(th.args, target_date))]
      [] th.op = "get_market_forecast" ->
           ForecastResult(
               [n \in 1..th.args.months_ahead |->
                   ForecastEntry(AddDays(th.frame.reads[n], 30 * (n - 1)), n - 1)])

\* C27: under any interleaving of the calls of the concurrent callers of
\* the shared service, the four reference tables stay as constructed and
\* every call that returns gives the result of the same call run alone on
\* the same arguments and dates.
C27_ConcurrentCallsAsAlone ==
    /\ area_multipliers = _get_area_pricing_multipliers
    /\ seasonal_multipliers = _get_seasonal_multipliers
    /\ event_multipliers = _get_event_multipliers
    /\ dubai_events_2024 = _get_dubai_events_calendar_2024
    /\ \A t \in DOMAIN threads :
          threads[t].pc = "returned" => threads[t].result = AloneResult(threads[t])

\* thread 2 has started (after midnight) and returned a calendar while
\* thread 1, which started before midnight, is in the middle of its own
C27_Witness ==
    /\ DOMAIN threads = 1..MaxThreads
    /\ threads[1].op = "generate_pricing_calendar"
    /\ threads[1].pc = "running"
    /\ threads[1].frame.i = 1
    /\ threads[1].frame.reads = <<Date(2024, 12, 30)>>
    /\ threads[2].op = "generate_pricing_calendar"
    /\ threads[2].pc = "returned"
    /\ threads[2].frame.reads = <<Date(2024, 12, 31)>>
    /\ Len(threads[2].result) = 2
    /\ threads[2].result[1].active_events = <<"New Year Celebrations">>
    /\ threads[2].result = AloneResult(threads[2])

====
